---------------------------- MODULE Spec2Model ----------------------------
(***************************************************************************)
(* A model of penrose-turing.c: the decoder of Penrose's Turing-machine    *)
(* encoding (parse_tm) and the two-pass execution engine (run).            *)
(*                                                                         *)
(* C strings are sequences of one-character strings.  C indices are        *)
(* 0-based; the sequence element of C index i is s[i + 1].                 *)
(* The characters of a tape buffer are "0", "1", " " (Blank) and NUL,      *)
(* the C string terminator '\0'.                                           *)
(***************************************************************************)
EXTENDS Integers, Sequences, FiniteSets, TLC

VARIABLES
    pc,                 \* position of the program: "main", "parsed", "pass1", ...
    error,              \* the error the program died with, or NoError
    stdout,             \* the lines written to standard output, in order
    tm,                 \* argument: the Turing machine specification
    initial_tape,       \* argument: the initial tape, or NoTape
    max_tape_len,       \* argument of run
    max_steps,          \* argument of run
    verbosity,          \* argument of run
    states,             \* parse_tm: the array of states
    states_len,         \* parse_tm: its length
    tape,               \* run: the tape buffer (see TapeAt)
    tape_alloc,         \* run: the number of bytes allocated for the buffer
    tape_len,           \* run: the materialized length of the tape
    tape_expansion_amt, \* run: the size of the next growth
    curr_state,         \* run: index of the current state in states
    tape_ix,            \* run: index of the head in the buffer
    rel_tape_ix,        \* run: offset of the head from its starting cell
    min_rel_tape_ix,    \* run: least offset seen
    max_rel_tape_ix,    \* run: greatest offset seen
    final_tape_len,     \* run: length of the tape of the second execution
    step,               \* run: number of the step
    ub,                 \* TRUE once the program's behaviour is undefined
    trace1,             \* history: the steps of the first execution
    trace2,             \* history: the steps of the second execution
    halt1               \* history: the first execution as it halted

args == <<tm, initial_tape, max_tape_len, max_steps, verbosity>>
table == <<states, states_len>>
machine == <<tape, tape_alloc, tape_len, tape_expansion_amt, curr_state,
             tape_ix, rel_tape_ix, min_rel_tape_ix, max_rel_tape_ix,
             final_tape_len, step>>
history == <<trace1, trace2, halt1>>
vars == <<pc, error, stdout, args, table, machine, ub, history>>

-----------------------------------------------------------------------------
(* Bounds of the model. *)

\* Longest Turing machine specification of the decoder's inputs.
MaxTmLen == 5

\* Longest Turing machine specification, of those enumerated, that is run.
MaxRunTmLen == 4

\* Longest initial tape.
MaxTapeInit == 2

\* Greatest max_steps.
MaxSteps == 4

\* The second execution checks no limit of its own: the model follows it
\* for at most MaxSteps + Pass2Extra steps.
Pass2Extra == 2

-----------------------------------------------------------------------------
(* Constants of the program. *)

\* enum token { ZERO, ONE, RIGHT, LEFT, STOP }
ZERO == 0
ONE == 1
RIGHT == 2
LEFT == 3
STOP == 4

\* Width in bits of unsigned int, the type of the shift at line 310.
UIntBits == 32

\* Width in bits of size_t, the type of next_state_ix at line 307.
SizeTBits == 64

\* A size_t value is held as limbs of 16 bits, least significant first: the
\* values of a 32-bit shift do not fit the integers of the model checker.
LimbBase == 2 ^ 16
LimbCount == SizeTBits \div 16    \* four limbs

\* Line 396: the size of the first growth of the tape.
TAPE_EXPANSION_AMT == 1024

\* Lines 122-123: DEFAULT_MAX_TAPE_LEN and DEFAULT_MAX_STEPS.
DEFAULT_MAX_TAPE_LEN == 1048576
DEFAULT_MAX_STEPS == 1048576

NUL == "N"
NULL == -1
NoError == [kind |-> "none"]

\* args.tape when no tape is given (a null pointer).
NoTape == <<"NULL">>

\* halt1 before the first execution has halted.
NotHalted == [step |-> 0]

-----------------------------------------------------------------------------
(* Arithmetic on size_t and unsigned int. *)

\* The size_t value of a small non-negative integer.
ToSizeT(n) == [k \in 1..LimbCount |->
                 IF k = 1 THEN n % LimbBase
                 ELSE IF k = 2 THEN n \div LimbBase ELSE 0]

\* The integer of a size_t value known to be below 2^31.
FromSizeT(a) == a[1] + LimbBase * a[2]

\* a + b in size_t, limb by limb: the carry out of the top limb is lost.
AddSizeT(a, b) ==
    LET s1 == a[1] + b[1]
        s2 == a[2] + b[2] + (s1 \div LimbBase)
        s3 == a[3] + b[3] + (s2 \div LimbBase)
        s4 == a[4] + b[4] + (s3 \div LimbBase)
    IN  <<s1 % LimbBase, s2 % LimbBase, s3 % LimbBase, s4 % LimbBase>>

\* A comparison that lets through a value one above the bound.
GreaterByTwoSizeT(a, b) ==
    \E k \in 1..LimbCount :
        /\ a[k] > b[k] + (IF k = 1 THEN 1 ELSE 0)
        /\ \A m \in (k + 1)..LimbCount : a[m] = b[m]

\* a > b in size_t.
GreaterSizeT(a, b) ==
    \E k \in 1..LimbCount :
        /\ a[k] > b[k]
        /\ \A m \in (k + 1)..LimbCount : a[m] = b[m]

\* 2^j as a size_t value, for j < SizeTBits.
PowerOfTwo(j) == [k \in 1..LimbCount |->
                    IF k = (j \div 16) + 1 THEN 2 ^ (j % 16) ELSE 0]

\* The outcomes of a shift of an unsigned int by its width or more, which is
\* undefined: the count taken modulo the width (x86, AArch64), or a result
\* of zero (ARM).
ShiftOutcomes == {"mask", "zero"}

\* ((unsigned int) x) * 1u << j, for x in {0, 1}, converted to size_t.
ShiftLeft(x, j, outcome) ==
    IF x = 0 THEN ToSizeT(0)
    ELSE IF j < UIntBits THEN PowerOfTwo(j)
    ELSE IF outcome = "mask" THEN PowerOfTwo(j % UIntBits)
    ELSE ToSizeT(0)

-----------------------------------------------------------------------------
(* parse_tm *)

\* Lines 208-215: the index of the first character that is neither '0' nor
\* '1', or -1 when there is none.
RECURSIVE InvalidCharFrom(_, _)
InvalidCharFrom(s, i) ==
    IF i >= Len(s) THEN -1
    ELSE IF s[i + 1] # "0" /\ s[i + 1] # "1" THEN i
    ELSE InvalidCharFrom(s, i + 1)

InvalidCharIx(s) == InvalidCharFrom(s, 0)

\* Lines 216-230: tm_tmp, the specification between an implicit "110" at
\* the beginning and at the end.
Wrap(s) == <<"1", "1", "0">> \o s \o <<"1", "1", "0">>

\* Lines 244-257: the tokenizer loop from index i on, token_len characters
\* into the current token.  err is the index reported, or -1.  (The
\* conjunct on Len(toks) is always true: it has toks evaluated at every
\* iteration and not as one nested expression at the end.)
RECURSIVE TokenizeFrom(_, _, _, _)
TokenizeFrom(tm_tmp, i, token_len, toks) ==
    CASE i >= Len(tm_tmp) -> [err |-> -1, tokens |-> toks]
      [] i < Len(tm_tmp) /\ token_len + 1 > 5 -> [err |-> i, tokens |-> toks]
      [] i < Len(tm_tmp) /\ token_len + 1 <= 5 /\ tm_tmp[i + 1] = "0"
         /\ Len(toks) >= 0 ->
            TokenizeFrom(tm_tmp, i + 1, 0, Append(toks, token_len))
      [] OTHER -> TokenizeFrom(tm_tmp, i + 1, token_len + 1, toks)

Tokenize(tm_tmp) == TokenizeFrom(tm_tmp, 0, 0, << >>)

\* Lines 261-266: the number of tokens that are RIGHT, LEFT or STOP.
ActionsLen(toks) == Cardinality({i \in 1..Len(toks) : toks[i] >= RIGHT})

\* Lines 307-311: the index of the next state, read from the tokens of
\* C indices token_start .. i - 2, the last of them the least significant:
\* the loop adds, for the token of index t, that token shifted left by
\* j = i - 2 - t.  SumOfShifts is the sum of the terms of the tokens lo .. hi
\* (the sum is split in halves only to keep the evaluation shallow).
RECURSIVE SumOfShifts(_, _, _, _, _)
SumOfShifts(toks, i, lo, hi, outcome) ==
    IF lo > hi THEN ToSizeT(0)
    ELSE IF lo = hi THEN ShiftLeft(toks[lo + 1], i - 2 - lo, outcome)
    ELSE LET mid == (lo + hi) \div 2
         IN  AddSizeT(SumOfShifts(toks, i, lo, mid, outcome),
                      SumOfShifts(toks, i, mid + 1, hi, outcome))

NextStateIx(toks, i, token_start, outcome) ==
    SumOfShifts(toks, i, token_start, i - 2, outcome)

\* Lines 289-295: the direction a terminating token stands for.
DirectionOf(token) ==
    IF token = RIGHT THEN 1 ELSE IF token = LEFT THEN -1 ELSE 0

\* calloc gives actions and states of all-zero bytes.
ZeroAction == [value_to_write |-> 0, direction_to_move |-> 0, next_state |-> NULL]
ZeroState == [number |-> 0, action0 |-> ZeroAction, action1 |-> ZeroAction]

\* Lines 297-318: the action that the token of C index i terminates, or the
\* non-existent state it refers to.
DecodeAction(toks, i, token_start, len, outcome) ==
    LET dir == DirectionOf(toks[i + 1])
    IN  IF token_start = i
        THEN [ok |-> TRUE,
              action |-> [value_to_write |-> 0, direction_to_move |-> dir,
                          next_state |-> 0]]
        ELSE IF token_start = i - 1
        THEN [ok |-> TRUE,
              action |-> [value_to_write |-> toks[i], direction_to_move |-> dir,
                          next_state |-> 0]]
        ELSE LET next_state_ix == NextStateIx(toks, i, token_start, outcome)
             IN  IF GreaterSizeT(next_state_ix, ToSizeT(len - 1))
                 THEN [ok |-> FALSE, target |-> next_state_ix]
                 ELSE [ok |-> TRUE,
                       action |-> [value_to_write |-> toks[i],
                                   direction_to_move |-> dir,
                                   next_state |-> FromSizeT(next_state_ix)]]

\* Lines 280-284: the C index of the first token from index i on that is
\* RIGHT, LEFT or STOP (the loop passes over the others), or Len(toks).
NextTerminator(toks, i) ==
    LET terminators == {k \in i..(Len(toks) - 1) : toks[k + 1] >= RIGHT}
    IN  IF terminators = {} THEN Len(toks)
        ELSE CHOOSE k \in terminators : \A m \in terminators : k <= m

\* An array of states in which the two actions of a state change places.
SetActionSwapped(sts, action_ix, state_ix, action) ==
    LET numbered == [sts EXCEPT ![state_ix + 1].number = state_ix]
    IN  IF action_ix % 2 = 0
        THEN [numbered EXCEPT ![state_ix + 1].action1 = action]
        ELSE [numbered EXCEPT ![state_ix + 1].action0 = action]

\* Lines 286-288, 320-325: the array of states with the action of index
\* action_ix set, and the indices for the next iteration.
SetAction(sts, action_ix, state_ix, action) ==
    LET numbered == [sts EXCEPT ![state_ix + 1].number = state_ix]
    IN  IF action_ix % 2 = 0
        THEN [numbered EXCEPT ![state_ix + 1].action0 = action]
        ELSE [numbered EXCEPT ![state_ix + 1].action1 = action]

NextStateIndex(action_ix, state_ix) ==
    IF (action_ix + 1) % 2 = 0 THEN state_ix + 1 ELSE state_ix

\* Lines 280-326: the loop that creates the states, from the token of C
\* index from on; i is the index of the next token that ends an action.
\* sts is the array of states so far.
RECURSIVE BuildFrom(_, _, _, _, _, _, _)
BuildFrom(toks, from, action_ix, state_ix, token_start, sts, outcome) ==
    LET i == NextTerminator(toks, from)
        d == DecodeAction(toks, i, token_start, Len(sts), outcome)
    IN  CASE i >= Len(toks) -> [error |-> NoError, states |-> sts]
          [] i < Len(toks) /\ ~d.ok ->
                [error |-> [kind |-> "UndefinedStateReference",
                            state |-> state_ix, target |-> d.target],
                 states |-> << >>]
          [] OTHER ->
                BuildFrom(toks, i + 1, action_ix + 1,
                          NextStateIndex(action_ix, state_ix), i + 1,
                          SetAction(sts, action_ix, state_ix, d.action), outcome)

\* Lines 204-328: what parse_tm does with the specification s: the error it
\* dies with or the states it creates, and the tokens it saw.
ParseTmResult(s, outcome) ==
    LET bad == InvalidCharIx(s)
        tok == Tokenize(Wrap(s))
        actions_len == ActionsLen(tok.tokens)
        len == actions_len \div 2
        built == BuildFrom(tok.tokens, 0, 0, 0, 0,
                           [k \in 1..len |-> ZeroState], outcome)
    IN  IF bad # -1
        THEN [error |-> [kind |-> "InvalidCharacter", index |-> bad],
              tokens |-> << >>, states |-> << >>]
        ELSE IF tok.err # -1
        THEN [error |-> [kind |-> "InvalidRunLength", index |-> tok.err],
              tokens |-> tok.tokens, states |-> << >>]
        ELSE IF actions_len % 2 # 0
        THEN [error |-> [kind |-> "IncompleteStateDefinition"],
              tokens |-> tok.tokens, states |-> << >>]
        ELSE [error |-> built.error, tokens |-> tok.tokens,
              states |-> built.states]

-----------------------------------------------------------------------------
(* print_tm *)

\* Lines 355-366: the line print_tm_action prints for an action.
TmActionLine(sts, state_number, c, action) ==
    [state |-> state_number, read |-> c,
     next |-> sts[action.next_state + 1].number,
     write |-> action.value_to_write,
     direction |-> IF action.direction_to_move = -1 THEN "L"
                   ELSE IF action.direction_to_move = 1 THEN "R"
                   ELSE "STOP"]

\* Lines 338-344: the lines print_tm prints from state i on.
RECURSIVE TmLinesFrom(_, _)
TmLinesFrom(sts, i) ==
    IF i >= Len(sts) THEN << >>
    ELSE <<TmActionLine(sts, sts[i + 1].number, "0", sts[i + 1].action0),
           TmActionLine(sts, sts[i + 1].number, "1", sts[i + 1].action1)>>
         \o TmLinesFrom(sts, i + 1)

-----------------------------------------------------------------------------
(* The tape buffer of run.                                                  *)
(*                                                                          *)
(* A buffer is a function from C indices to bytes that holds the bytes      *)
(* that are not ' ': a byte of the allocation that the function does not    *)
(* hold is ' '.  The bytes of a buffer the program creates are all written  *)
(* by it, so none is left as calloc made it, except where stated.           *)
(*                                                                          *)
(* An access outside the allocation is undefined.  Its outcomes in the      *)
(* model are those of flat memory: a byte outside the allocation that the   *)
(* run has written holds what was written (the function holds it too), a    *)
(* byte that it has not written holds any character; and the program may    *)
(* die.                                                                     *)

Char == {"0", "1", " ", NUL}

InBounds(alloc, i) == 0 <= i /\ i < alloc

Known(t, alloc, i) == InBounds(alloc, i) \/ i \in DOMAIN t

TapeAt(t, i) == IF i \in DOMAIN t THEN t[i] ELSE " "

\* The characters that reading tape[i] may give.
ReadOutcomes(t, alloc, i) == IF Known(t, alloc, i) THEN {TapeAt(t, i)} ELSE Char

\* tape[i] = c
Store(t, i, c) ==
    [j \in (DOMAIN t \cup {i}) \ (IF c = " " THEN {i} ELSE {}) |->
        IF j = i THEN c ELSE t[j]]

\* Lines 391-392: calloc(initial_tape_len + 1) and strcpy(tape, initial_tape).
InitialBuffer(s) ==
    [i \in 0..Len(s) |-> IF i = Len(s) THEN NUL ELSE s[i + 1]]

\* The length strcpy finds for the string in a buffer: the index of its
\* first NUL, or alloc when the allocation holds none and strcpy runs on.
StrLen(t, alloc) ==
    LET nuls == {i \in DOMAIN t : InBounds(alloc, i) /\ t[i] = NUL}
    IN  IF nuls = {} THEN alloc
        ELSE CHOOSE i \in nuls : \A k \in nuls : i <= k

\* A growth to the left that does not copy the old string.
GrowLeftEmpty(t, alloc, len, amt) == [i \in {len + amt} |-> NUL]

\* Lines 432-438: tape_tmp after a growth to the left: amt blanks, then the
\* old string and its terminator; what strcpy does not reach stays zero.
\* The new allocation has len + amt + 1 bytes; what strcpy writes past it
\* is lost.
GrowLeft(t, alloc, len, amt) ==
    LET n == StrLen(t, alloc)
    IN  [i \in {j \in amt..(len + amt) :
                   j - amt >= n \/ TapeAt(t, j - amt) # " "} |->
            IF i - amt >= n THEN NUL ELSE t[i - amt]]

\* A growth to the right that does not copy the old string.
GrowRightEmpty(t, alloc, len, amt) == [i \in {len + amt} |-> NUL]

\* Lines 432, 440-444: tape_tmp after a growth to the right: the old
\* string, then amt blanks from index len on, then the terminator.
GrowRight(t, alloc, len, amt) ==
    LET n == StrLen(t, alloc)
    IN  [i \in {j \in 0..(len - 1) : j >= n \/ TapeAt(t, j) # " "}
               \cup {len + amt} |->
            IF i = len + amt \/ i >= n THEN NUL ELSE t[i]]

\* Lines 469-476: the tape of the second execution: len blanks, the initial
\* tape from index ix on, and the terminator.
SecondBuffer(s, len, ix) ==
    [i \in {ix + k : k \in 0..(Len(s) - 1)} \cup {len} |->
        IF i = len THEN NUL ELSE s[i - ix + 1]]

\* Lines 526-529: what print_tape prints before the current cell.
RECURSIVE CellsBefore(_, _, _)
CellsBefore(t, i, ix) ==
    IF i >= ix THEN << >>
    ELSE <<" ", TapeAt(t, i)>> \o CellsBefore(t, i + 1, ix)

\* Lines 533-536: what print_tape prints after the current cell.
RECURSIVE CellsAfter(_, _, _)
CellsAfter(t, i, len) ==
    IF i >= len THEN << >>
    ELSE <<TapeAt(t, i), " ">> \o CellsAfter(t, i + 1, len)

\* A variant of Frame that numbers a frame with the step before its own.
FrameOfStepBefore(t, len, ix, stp, state_number) ==
    LET mark == IF stp > 0 THEN "|" ELSE " "
    IN  [step |-> IF stp > 0 THEN stp - 1 ELSE 0, state |-> state_number,
         text |-> CellsBefore(t, 0, ix) \o <<mark, TapeAt(t, ix), mark>>
                  \o CellsAfter(t, ix + 1, len)]

\* Lines 514-538: the line print_tape prints: the step, the number of the
\* state, and the text after the colon.
Frame(t, len, ix, stp, state_number) ==
    LET mark == IF stp > 0 THEN "|" ELSE " "
    IN  [step |-> stp, state |-> state_number,
         text |-> CellsBefore(t, 0, ix) \o <<mark, TapeAt(t, ix), mark>>
                  \o CellsAfter(t, ix + 1, len)]

\* A scan that does not stop at a blank: it runs to the start of the buffer.
ScanLeftToStart(t, s) == -1

\* Lines 456-459: where the scan to the left from index s stops: at the
\* nearest blank, or at index -1, where it stops whatever the byte there is.
ScanLeft(t, s) ==
    LET blanks == {i \in 0..s : TapeAt(t, i) = " "}
    IN  IF blanks = {} THEN -1
        ELSE CHOOSE i \in blanks : \A k \in blanks : k <= i

\* Line 460: the characters fputs prints from index s on, up to the first
\* NUL; limit is an index at which a NUL is known to be.
Puts(t, s, limit) ==
    LET nuls == {i \in s..limit : TapeAt(t, i) = NUL}
        end == IF nuls = {} THEN limit
               ELSE CHOOSE i \in nuls : \A k \in nuls : i <= k
    IN  [k \in 1..(end - s) |-> TapeAt(t, s + k - 1)]

\* A test of the step limit that lets one step too many through.
StepLimitPassed(stp, limit) == stp > limit

\* A test of the tape limit that lets a tape one cell too long through.
TapeLimitOffByOne(len, limit) == len > limit + 1

\* Line 404: the test of the step limit, made before the step is counted.
StepLimitReached(stp, limit) == stp = limit

\* Line 409: the test of the tape limit, made after the step is counted.
TapeLimitExceeded(len, limit) == len > limit

\* A test that takes every action for a Stop.
IsAnyDirection(dir) == dir \in {-1, 0, 1}

\* Lines 420, 495: the test that ends an execution: the action is a Stop.
IsStop(dir) == dir = 0

\* A test for a frame that takes a blank cell for a cell that holds '0'.
EmitsFrameBlankAsZero(v, value_to_write, curr_value) ==
    v = 2 \/ value_to_write # (IF curr_value = " " THEN "0" ELSE curr_value)

\* Line 492: the test for a frame after the write of a step.
EmitsFrame(v, value_to_write, curr_value) ==
    v = 2 \/ value_to_write # curr_value

\* Lines 414-418, 485-489: the action taken after reading c in state k.
ActionFor(sts, k, c) ==
    IF c = "0" \/ c = " " THEN sts[k + 1].action0 ELSE sts[k + 1].action1

\* A write that puts '1' on the tape whatever the value is.
CharOfOne(value_to_write) == "1"

\* Lines 419, 490: the character written for a value.
CharOf(value_to_write) == IF value_to_write = 0 THEN "0" ELSE "1"

\* Lines 425-427: the least offset of the head after a move to offset rel.
MinRel(rel, least) == IF rel < least THEN rel ELSE least

\* An update of the greatest offset that forgets a move to the right.
MaxRelKept(rel, greatest) == greatest

\* Lines 428-430: the greatest offset of the head after a move to offset rel.
MaxRel(rel, greatest) == IF rel > greatest THEN rel ELSE greatest

-----------------------------------------------------------------------------
(* The arguments of the program. *)

\* The strings over an alphabet of at most n characters.
Strings(alphabet, n) == UNION {[1..k -> alphabet] : k \in 0..n}

\* The string of a sequence of binary digits.
Bits(digits) == [i \in DOMAIN digits |-> IF digits[i] = 1 THEN "1" ELSE "0"]

Zeros(n) == [i \in 1..n |-> "0"]

\* Two states; state 0 goes to state 1 on reading 1, state 1 stops there.
TwoStateTm == Bits(<<1,0,0,1,1,0, 1,1,0, 1,1>>)

\* Two states; state 0 goes left to state 1 on reading 1, state 1 writes 1
\* and stops on reading 0.
LeftStopTm == Bits(<<1,0,1,0,1,1,1,0, 1,0,1,1,1,1,0>>)

\* Penrose's UN+1, which adds one to a number in unary notation.
UnaryPlusOneTm == Bits(<<1,0,1,0,1,1,0, 1,0,1,1,1,1,0, 1,0,1,0>>)

\* Two states; state 0 goes right to state 1 on reading 1, state 1 writes 0
\* and stops on reading 0.
BlankZeroTm == Bits(<<1,0,1,0,1,1,0, 1,1,1,1,0>>)

\* Two states; state 0 goes right to state 1 on reading 1, state 1 goes
\* left to state 0 on reading 0.
RightLeftTm == Bits(<<1,0,0,1,1,0, 1,1,1,0>>)
\* Three states; action1 of state 0 has the address 10 and goes to state 2.
ThreeStateTm == Bits(<<1,0,0,0,1,1,0, 1,1,0, 1,1,0, 1,1,0>>)

\* The address of an action of these has 33 digits, a 1 and 32 zeros, and
\* denotes 2^32; the second has two states.
LongAddressTm == Bits(<<1,0>>) \o Zeros(UIntBits + 1)
LongAddressTm2 == LongAddressTm \o Bits(<<1,1,0, 1,1,0>>)

\* The specifications given to the decoder alone ("x" stands for any
\* character other than '0' and '1').
ParseTms == Strings({"0", "1", "x"}, MaxTmLen)
            \cup {TwoStateTm, LeftStopTm, UnaryPlusOneTm, ThreeStateTm,
                  LongAddressTm, LongAddressTm2}

\* The specifications of the machines that are run.
RunTms == Strings({"0", "1"}, MaxRunTmLen)
          \cup {TwoStateTm, LeftStopTm, UnaryPlusOneTm, BlankZeroTm,
                RightLeftTm}

InputTapes == Strings({"0", "1", "x"}, MaxTapeInit)

\* Limits on the tape below and above the first and the second growth.
TapeLimits == {1, TAPE_EXPANSION_AMT + 1, 4 * TAPE_EXPANSION_AMT}

StepLimits == 1..MaxSteps

-----------------------------------------------------------------------------
(* The program. *)

InitRest ==
    /\ pc = "main"
    /\ error = NoError
    /\ stdout = << >>
    /\ states = << >>
    /\ states_len = 0
    /\ tape = << >>
    /\ tape_alloc = 0
    /\ tape_len = 0
    /\ tape_expansion_amt = 0
    /\ curr_state = 0
    /\ tape_ix = 0
    /\ rel_tape_ix = 0
    /\ min_rel_tape_ix = 0
    /\ max_rel_tape_ix = 0
    /\ final_tape_len = 0
    /\ step = 0
    /\ ub = FALSE
    /\ trace1 = << >>
    /\ trace2 = << >>
    /\ halt1 = NotHalted

\* main with a tape: the machine is decoded and run.
Init ==
    /\ tm \in RunTms
    /\ initial_tape \in InputTapes
    /\ max_tape_len \in TapeLimits
    /\ max_steps \in StepLimits
    /\ verbosity \in 0..2
    /\ InitRest

\* main without a tape: the machine is decoded and printed.
InitParse ==
    /\ tm \in ParseTms
    /\ initial_tape = NoTape
    /\ max_tape_len = DEFAULT_MAX_TAPE_LEN
    /\ max_steps = DEFAULT_MAX_STEPS
    /\ verbosity = 0
    /\ InitRest

\* exit(1) after a message on stderr.
Die(e) == pc' = "exit" /\ error' = e

\* Line 140: parse_tm(args.tm, &states, &states_len).
ParseTm ==
    /\ pc = "main"
    /\ \E outcome \in ShiftOutcomes :
         LET r == ParseTmResult(tm, outcome)
         IN  /\ error' = r.error
             /\ pc' = IF r.error = NoError THEN "parsed" ELSE "exit"
             /\ states' = r.states
             /\ states_len' = Len(r.states)
    /\ UNCHANGED <<stdout, args, machine, ub, history>>

\* Lines 143-146: without a tape, print_tm(states, states_len) and return.
PrintTm ==
    /\ pc = "parsed"
    /\ initial_tape = NoTape
    /\ stdout' = stdout \o TmLinesFrom(states, 0)
    /\ pc' = "done"
    /\ UNCHANGED <<error, args, table, machine, ub, history>>

\* Lines 382-402: run checks the initial tape, copies it and sets out in
\* state zero on its first cell.
RunBegin ==
    /\ pc = "parsed"
    /\ initial_tape # NoTape
    /\ LET bad == InvalidCharIx(initial_tape)
           initial_tape_len == Len(initial_tape)
       IN  IF bad # -1
           THEN /\ Die([kind |-> "InvalidTapeCharacter", index |-> bad])
                /\ UNCHANGED machine
           ELSE /\ pc' = "pass1"
                /\ error' = error
                /\ tape' = InitialBuffer(initial_tape)
                /\ tape_alloc' = initial_tape_len + 1
                /\ tape_len' = initial_tape_len
                /\ tape_expansion_amt' = TAPE_EXPANSION_AMT
                /\ curr_state' = 0
                /\ tape_ix' = 0
                /\ rel_tape_ix' = 0
                /\ min_rel_tape_ix' = 0
                /\ max_rel_tape_ix' = initial_tape_len - 1
                /\ step' = 0
                /\ final_tape_len' = final_tape_len
    /\ UNCHANGED <<stdout, args, table, ub, history>>

\* Lines 403-452: one iteration of the loop of the first execution: the
\* two limits, the step, and the growth of the tape when the head leaves it.
Pass1Step ==
    /\ pc = "pass1"
    /\ IF StepLimitReached(step, max_steps)
       THEN /\ Die([kind |-> "StepLimitExceeded", limit |-> max_steps])
            /\ UNCHANGED <<machine, ub, history>>
       ELSE IF TapeLimitExceeded(tape_len, max_tape_len)
       THEN /\ Die([kind |-> "TapeLimitExceeded", limit |-> max_tape_len])
            /\ step' = step + 1
            /\ UNCHANGED <<tape, tape_alloc, tape_len, tape_expansion_amt,
                           curr_state, tape_ix, rel_tape_ix, min_rel_tape_ix,
                           max_rel_tape_ix, final_tape_len, ub, history>>
       ELSE \E c \in ReadOutcomes(tape, tape_alloc, tape_ix) :
            LET action == ActionFor(states, curr_state, c)
                value == CharOf(action.value_to_write)
                written == Store(tape, tape_ix, value)
                dir == action.direction_to_move
                moved_ix == tape_ix + dir
                moved_rel == rel_tape_ix + dir
                outside == ~InBounds(tape_alloc, tape_ix)
                entry == [state |-> curr_state, rel |-> rel_tape_ix,
                          read |-> c, written |-> value]
            IN  /\ step' = step + 1
                /\ error' = error
                /\ trace1' = Append(trace1, entry)
                /\ trace2' = trace2
                /\ final_tape_len' = final_tape_len
                /\ IF IsStop(dir)
                   THEN /\ pc' = "halted1"
                        /\ tape' = written
                        /\ ub' = (ub \/ outside)
                        /\ halt1' = [tape |-> written, tape_len |-> tape_len,
                                     tape_ix |-> tape_ix,
                                     rel_tape_ix |-> rel_tape_ix,
                                     curr_state |-> curr_state,
                                     step |-> step + 1]
                        /\ UNCHANGED <<tape_alloc, tape_len, tape_expansion_amt,
                                       curr_state, tape_ix, rel_tape_ix,
                                       min_rel_tape_ix, max_rel_tape_ix>>
                   ELSE /\ pc' = "pass1"
                        /\ halt1' = halt1
                        /\ rel_tape_ix' = moved_rel
                        /\ min_rel_tape_ix' = MinRel(moved_rel, min_rel_tape_ix)
                        /\ max_rel_tape_ix' = MaxRel(moved_rel, max_rel_tape_ix)
                        /\ curr_state' = action.next_state
                        /\ IF moved_ix < 0 \/ moved_ix = tape_len
                           THEN /\ IF moved_ix < 0
                                   THEN /\ tape' = GrowLeft(written, tape_alloc, tape_len,
                                                            tape_expansion_amt)
                                        /\ tape_ix' = moved_ix + tape_expansion_amt
                                   ELSE /\ tape' = GrowRight(written, tape_alloc, tape_len,
                                                             tape_expansion_amt)
                                        /\ tape_ix' = moved_ix
                                /\ tape_alloc' = tape_len + tape_expansion_amt + 1
                                /\ tape_len' = tape_len + tape_expansion_amt
                                /\ tape_expansion_amt' = tape_expansion_amt * 2
                                /\ ub' = (ub \/ outside
                                          \/ StrLen(written, tape_alloc) >= tape_alloc)
                           ELSE /\ tape' = written
                                /\ tape_ix' = moved_ix
                                /\ ub' = (ub \/ outside)
                                /\ UNCHANGED <<tape_alloc, tape_len,
                                               tape_expansion_amt>>
    /\ UNCHANGED <<stdout, args, table>>

\* Lines 454-463: with verbosity 0 the tape is cut after the head, and what
\* is left of it from the last blank before the head on is printed.
Output0 ==
    /\ pc = "halted1"
    /\ verbosity = 0
    /\ LET cut == Store(tape, tape_ix + 1, NUL)
           s == ScanLeft(cut, tape_ix)
       IN  /\ tape' = cut
           /\ stdout' = Append(stdout, [line |-> "tape",
                                        text |-> Puts(cut, s + 1, tape_ix + 1)])
           /\ ub' = (ub \/ ~InBounds(tape_alloc, tape_ix + 1) \/ s < 0)
    /\ pc' = "done"
    /\ UNCHANGED <<error, args, table, tape_alloc, tape_len, tape_expansion_amt,
                   curr_state, tape_ix, rel_tape_ix, min_rel_tape_ix,
                   max_rel_tape_ix, final_tape_len, step, history>>

\* Lines 465-480: the tape of the second execution, of the length the first
\* one found, and the frame of step 0.
Pass2Begin ==
    /\ pc = "halted1"
    /\ verbosity # 0
    /\ LET len == max_rel_tape_ix - min_rel_tape_ix + 1
           ix == -min_rel_tape_ix
           buffer == SecondBuffer(initial_tape, len, ix)
       IN  /\ final_tape_len' = len
           /\ tape_ix' = ix
           /\ tape' = buffer
           /\ tape_alloc' = len + 1
           /\ stdout' = Append(stdout, [line |-> "frame"]
                                       @@ Frame(buffer, len, ix, 0, states[1].number))
    /\ step' = 0
    /\ curr_state' = 0
    /\ pc' = "pass2"
    /\ UNCHANGED <<error, args, table, tape_len, tape_expansion_amt, rel_tape_ix,
                   min_rel_tape_ix, max_rel_tape_ix, ub, history>>

\* Lines 481-500: one iteration of the loop of the second execution.
Pass2Step ==
    /\ pc = "pass2"
    /\ step < MaxSteps + Pass2Extra
    /\ \E curr_value \in ReadOutcomes(tape, tape_alloc, tape_ix) :
         LET action == ActionFor(states, curr_state, curr_value)
             value_to_write == CharOf(action.value_to_write)
             written == Store(tape, tape_ix, value_to_write)
             entry == [state |-> curr_state, rel |-> tape_ix + min_rel_tape_ix,
                       read |-> curr_value, written |-> value_to_write]
         IN  /\ step' = step + 1
             /\ tape' = written
             /\ ub' = (ub \/ ~InBounds(tape_alloc, tape_ix))
             /\ trace2' = Append(trace2, entry)
             /\ stdout' = IF EmitsFrame(verbosity, value_to_write, curr_value)
                          THEN Append(stdout,
                                      [line |-> "frame"]
                                      @@ Frame(written, final_tape_len, tape_ix,
                                               step + 1, states[curr_state + 1].number))
                          ELSE stdout
             /\ IF IsStop(action.direction_to_move)
                THEN /\ pc' = "done"
                     /\ UNCHANGED <<tape_ix, curr_state>>
                ELSE /\ pc' = "pass2"
                     /\ tape_ix' = tape_ix + action.direction_to_move
                     /\ curr_state' = action.next_state
    /\ UNCHANGED <<error, args, table, tape_alloc, tape_len, tape_expansion_amt,
                   rel_tape_ix, min_rel_tape_ix, max_rel_tape_ix, final_tape_len,
                   trace1, halt1>>

\* After an access outside the tape buffer the program may die at any time.
Crash ==
    /\ pc \in {"pass1", "halted1", "pass2"}
    /\ ub
    /\ pc' = "crashed"
    /\ UNCHANGED <<error, stdout, args, table, machine, ub, history>>

Next ==
    \/ ParseTm
    \/ RunBegin
    \/ Pass1Step
    \/ Output0
    \/ Pass2Begin
    \/ Pass2Step
    \/ Crash

Spec == Init /\ [][Next]_vars

NextParse ==
    \/ ParseTm
    \/ PrintTm

SpecParse == InitParse /\ [][NextParse]_vars

-----------------------------------------------------------------------------
(* Properties of the output of run with verbosity 0. *)

\* The cells of a tape from index lo to index hi, as a string.
Cells(t, lo, hi) == [k \in 1..(hi - lo + 1) |-> TapeAt(t, lo + k - 1)]

\* The least index from which all cells up to ix are not blank.
RunStart(t, ix) ==
    CHOOSE l \in 0..ix :
        /\ \A k \in l..ix : TapeAt(t, k) # " "
        /\ l = 0 \/ TapeAt(t, l - 1) = " "

\* The greatest index of a tape of length len up to which all cells from ix
\* on are not blank.
RunEnd(t, ix, len) ==
    LET last == IF len - 1 > ix THEN len - 1 ELSE ix
    IN  CHOOSE r \in ix..last :
            /\ \A k \in (ix + 1)..r : TapeAt(t, k) # " "
            /\ r = last \/ TapeAt(t, r + 1) = " "

\* The run with verbosity 0 has halted within the limits and printed.
Printed0 == pc = "done" /\ verbosity = 0

\* C1, as stated: when the run with verbosity 0 halts within the limits, the
\* one line it prints is the maximal run of non-blank cells of the final
\* tape that contains the final head position: from the first blank (or the
\* start of the tape) on the left of the head to the first blank (or the end
\* of the tape) on its right.
C1_MaximalRun ==
    Printed0 =>
        stdout = <<[line |-> "tape",
                    text |-> Cells(halt1.tape,
                                   RunStart(halt1.tape, halt1.tape_ix),
                                   RunEnd(halt1.tape, halt1.tape_ix,
                                          halt1.tape_len))]>>

\* C1, amended: when the run with verbosity 0 halts within the limits, the
\* one line it prints is the run of non-blank cells of the final tape that
\* ends at the final head position: from the first blank (or the start of
\* the tape) on the left of the head up to the head cell itself.  No cell to
\* the right of the head is printed.
C1_RunUpToHead ==
    Printed0 =>
        stdout = <<[line |-> "tape",
                    text |-> Cells(halt1.tape,
                                   RunStart(halt1.tape, halt1.tape_ix),
                                   halt1.tape_ix)]>>

\* A run with verbosity 0 has printed its line with a non-blank cell of the
\* final tape just right of the head.
C1_Witness ==
    /\ Printed0
    /\ halt1.tape_ix + 1 < halt1.tape_len
    /\ TapeAt(halt1.tape, halt1.tape_ix + 1) \in {"0", "1"}

-----------------------------------------------------------------------------
(* Properties of the limits of the first execution. *)

\* The steps the first execution has executed (each reads and writes a cell).
Executed == Len(trace1)

\* The first execution dies with the error of the given kind.
DiesWith(kind) ==
    /\ pc' = "exit"
    /\ error'.kind = kind
    /\ tape' = tape
    /\ trace1' = trace1

\* No step executed so far was a Stop.
NoStopSoFar ==
    \A k \in 1..Len(trace1) :
        ActionFor(states, trace1[k].state, trace1[k].read).direction_to_move # 0

C2_Step ==
    /\ Len(trace1') <= max_steps
    /\ (pc = "pass1" /\ Executed = max_steps)
         => (pc' = "crashed" \/ DiesWith("StepLimitExceeded"))
    /\ (pc = "pass1" /\ pc' = "exit" /\ error'.kind = "StepLimitExceeded")
         => (Executed = max_steps /\ NoStopSoFar)
    /\ (pc = "pass1" /\ pc' = "halted1")
         => (Len(trace1') <= max_steps /\ error' = NoError)

\* C2: in the first execution the step limit is tested before every step.  A
\* machine that stops on its k-th step, k <= max_steps, halts without error;
\* the step-limit error is reported only after max_steps executed steps
\* none of which stopped, and a machine that has executed max_steps steps
\* without halting dies with it before another step reads or writes the
\* tape: no more than max_steps steps are ever executed (with max_steps = 1,
\* exactly one).
C2_StepLimit == [][C2_Step]_vars

\* The run died of the step limit 1 after exactly one executed step.
C2_Witness ==
    /\ pc = "exit"
    /\ error.kind = "StepLimitExceeded"
    /\ max_steps = 1
    /\ Executed = 1

\* The materialized length of the tape: the initial length and the growths
\* so far, which are TAPE_EXPANSION_AMT, twice that, ... up to half the
\* size of the next one.
Materialized ==
    Len(initial_tape) + (tape_expansion_amt - TAPE_EXPANSION_AMT)

C3_Step ==
    /\ pc = "pass1" => tape_len = Materialized
    /\ trace1' # trace1 => Materialized <= max_tape_len
    /\ (pc = "pass1" /\ Materialized > max_tape_len)
         => \/ pc' = "crashed"
            \/ DiesWith(IF Executed = max_steps THEN "StepLimitExceeded"
                         ELSE "TapeLimitExceeded")

\* C3: in the first execution no step is executed while the materialized
\* length of the tape exceeds max_tape_len: when it does at the start of a
\* step, be it the initial tape or a tape that has grown, the run dies with
\* the tape-limit error, or with the step-limit error when the step limit is
\* reached too.
C3_TapeLimit == [][C3_Step]_vars

\* The run died of the tape limit after a growth of the tape.
C3_Witness ==
    /\ pc = "exit"
    /\ error.kind = "TapeLimitExceeded"
    /\ Executed > 0
    /\ tape_len > Len(initial_tape)
    /\ Len(initial_tape) <= max_tape_len

-----------------------------------------------------------------------------
(* Properties of the two executions. *)

\* The second execution is under way or has halted.
InPass2 == pc = "pass2"
Traced == pc = "done" /\ verbosity # 0

\* C4: run always terminates: the first execution executes at most max_steps
\* steps, and the second one, which checks no limit, halts after exactly as
\* many steps as the first one did: while it runs it has made fewer steps
\* than the first execution, and when it halts it has made as many.
C4_Terminates ==
    /\ Executed <= max_steps
    /\ InPass2 => step < halt1.step
    /\ Traced => step = halt1.step

\* The cell of the final tape of the first execution at offset r from the
\* starting cell, and that of the tape of the second execution.
FinalCell1(r) == TapeAt(halt1.tape, halt1.tape_ix - halt1.rel_tape_ix + r)
FinalCell2(r) == TapeAt(tape, r - min_rel_tape_ix)

\* C10: the second execution visits, step by step, the same (state, offset
\* of the head from the starting cell, symbol read, symbol written) as the
\* first one, halts at the same step, and ends with the head at the same
\* offset and the same contents in every cell of the interval
\* [min_rel_tape_ix, max_rel_tape_ix].
C10_PassesAgree ==
    /\ (InPass2 \/ Traced)
         => /\ Len(trace2) <= Len(trace1)
            /\ \A k \in 1..Len(trace2) : trace2[k] = trace1[k]
    /\ Traced
         => /\ Len(trace2) = Len(trace1)
            /\ tape_ix + min_rel_tape_ix = halt1.rel_tape_ix
            /\ \A r \in min_rel_tape_ix..max_rel_tape_ix :
                    FinalCell2(r) = FinalCell1(r)

-----------------------------------------------------------------------------
(* Properties of parse_tm. *)

\* parse_tm has returned: the specification is accepted.
Accepted == pc \in {"parsed", "done"}

\* parse_tm has returned or died.
Parsed == pc # "main"

\* The specification consists of '0's and '1's only.
Binary == \A k \in 1..Len(tm) : tm[k] \in {"0", "1"}

\* C index j of the string w lies in a run of five or more '1's.
InLongRun(w, j) ==
    \E a \in 0..j : \E b \in j..(Len(w) - 1) :
        /\ b - a + 1 >= 5
        /\ \A k \in a..b : w[k + 1] = "1"

HasLongRun(w) == \E j \in 0..(Len(w) - 1) : InLongRun(w, j)

\* The tokens of the specification between the implicit "110"s.
Tokens == Tokenize(Wrap(tm)).tokens

\* The positions in Tokens of the tokens that end an action.
Terminators == {i \in 1..Len(Tokens) : Tokens[i] \in {RIGHT, LEFT, STOP}}

\* The position of the token that ends the action number k (from 0), and
\* the tokens of the action before it.
TermAt(k) ==
    CHOOSE i \in Terminators :
        Cardinality({j \in Terminators : j < i}) = k

Body(k) ==
    LET from == IF k = 0 THEN 1 ELSE TermAt(k - 1) + 1
    IN  SubSeq(Tokens, from, TermAt(k) - 1)

\* The action number k of the table.
ActionOf(k) ==
    IF k % 2 = 0 THEN states[(k \div 2) + 1].action0
    ELSE states[(k \div 2) + 1].action1

\* The value of at most 16 binary digits, the first the most significant.
RECURSIVE BinVal(_)
BinVal(bits) ==
    IF bits = << >> THEN 0
    ELSE 2 * BinVal(SubSeq(bits, 1, Len(bits) - 1)) + bits[Len(bits)]

\* The digits of an address but the last 16, and the last 16.
HighBits(bits) == SubSeq(bits, 1, Len(bits) - 16)
LowBits(bits) == SubSeq(bits, IF Len(bits) > 16 THEN Len(bits) - 15 ELSE 1,
                        Len(bits))

\* The natural number an address denotes is n, or is at least n, for n
\* below 2^16.
AddressIs(bits, n) ==
    /\ \A k \in 1..Len(HighBits(bits)) : HighBits(bits)[k] = ZERO
    /\ BinVal(LowBits(bits)) = n

AddressAtLeast(bits, n) ==
    \/ \E k \in 1..Len(HighBits(bits)) : HighBits(bits)[k] = ONE
    \/ BinVal(LowBits(bits)) >= n

\* The address of the action number k, which has two tokens or more.
Address(k) == SubSeq(Body(k), 1, Len(Body(k)) - 1)

\* C5: every action of every state of a table parse_tm returns has a
\* next_state that is one of the states 0 .. states_len - 1 of the table,
\* and states_len >= 1.
C5_NextStateValid ==
    (Accepted /\ Binary) =>
        /\ states_len >= 1
        /\ Len(states) = states_len
        /\ \A i \in 1..states_len :
              /\ states[i].action0.next_state \in 0..(states_len - 1)
              /\ states[i].action1.next_state \in 0..(states_len - 1)

\* A table of two states or more is returned, with an action that refers to
\* a state other than state 0.
C5_Witness ==
    /\ Accepted
    /\ Binary
    /\ states_len >= 2
    /\ \E i \in 1..states_len : states[i].action1.next_state >= 1

\* The specification is well formed but for the states it refers to: '0's
\* and '1's only, no run of more than four '1's, an even number of actions.
WellFormed ==
    /\ Binary
    /\ ~HasLongRun(Wrap(tm))
    /\ Cardinality(Terminators) % 2 = 0

\* Some action has an address that denotes a state the table has not.
RefersBeyondTable ==
    \E k \in 0..(Cardinality(Terminators) - 1) :
        /\ Len(Body(k)) >= 2
        /\ AddressAtLeast(Address(k), Cardinality(Terminators) \div 2)

\* C6: for every well-formed specification in which the address of some
\* action, of any length and read as an unbounded natural number with the
\* first digit the most significant, denotes a value >= states_len, parse_tm
\* dies with the undefined-state-reference error and returns no table.
C6_UndefinedStateRejected ==
    (Parsed /\ WellFormed /\ RefersBeyondTable) =>
        /\ error.kind = "UndefinedStateReference"
        /\ states = << >>

\* C7: for every specification of '0's and '1's, parse_tm dies with the
\* invalid-run-length error exactly when the specification between the
\* implicit "110"s has a run of five or more '1's, and the index it reports
\* is a 0-based position in the specification as given that lies inside the
\* run.
C7_RunLengthIndex ==
    (Parsed /\ Binary) =>
        /\ error.kind = "InvalidRunLength" <=> HasLongRun(Wrap(tm))
        /\ error.kind = "InvalidRunLength" =>
              /\ error.index \in 0..(Len(tm) - 1)
              /\ InLongRun(Wrap(tm), error.index + 3)

\* The direction of the action number k and the bit it writes, as the
\* tokens give them.
DirectionAt(k) ==
    IF Tokens[TermAt(k)] = RIGHT THEN 1
    ELSE IF Tokens[TermAt(k)] = LEFT THEN -1 ELSE 0

WriteBitAt(k) == IF Body(k) = << >> THEN 0 ELSE Body(k)[Len(Body(k))]

\* The action a is, in direction and bit written, the action number k.
IsActionAt(a, k) ==
    /\ a.direction_to_move = DirectionAt(k)
    /\ a.value_to_write = WriteBitAt(k)

\* C8: for every stream of tokens, parse_tm dies with the
\* incomplete-state-definition error iff the number of tokens that are
\* RIGHT, LEFT or STOP is odd; otherwise states_len is half that number, the
\* action number 2i of the stream is action0 of state i and the action
\* number 2i + 1 its action1, and the number of state i is i.
C8_StatesFromActions ==
    (Parsed /\ Binary /\ ~HasLongRun(Wrap(tm))) =>
        /\ error.kind = "IncompleteStateDefinition"
              <=> Cardinality(Terminators) % 2 = 1
        /\ Accepted =>
              /\ 2 * states_len = Cardinality(Terminators)
              /\ \A i \in 0..(states_len - 1) :
                    /\ states[i + 1].number = i
                    /\ IsActionAt(states[i + 1].action0, 2 * i)
                    /\ IsActionAt(states[i + 1].action1, 2 * i + 1)

\* A table is returned in which the two actions of the last state differ.
C8_Witness ==
    /\ Accepted
    /\ Binary
    /\ states_len >= 2
    /\ states[states_len].action0 # states[states_len].action1
    /\ states[states_len].number = states_len - 1

\* C9: in every accepted specification, for every action, with p the number
\* of ZERO and ONE tokens before the token that ends it: p = 0 gives bit 0
\* and state 0; p = 1 gives the token as the bit and state 0; p >= 2 gives
\* the last token as the bit and, as the state, the value of the p - 1
\* tokens before it read as a binary number, the first digit the most
\* significant.  The direction is that of the token that ends the action.
\* The first action of every table writes 0, moves right and goes to state 0.
C9_ActionDecoding ==
    (Accepted /\ Binary) =>
        /\ ActionOf(0) = [value_to_write |-> 0, direction_to_move |-> 1,
                          next_state |-> 0]
        /\ \A k \in 0..(Cardinality(Terminators) - 1) :
              /\ IsActionAt(ActionOf(k), k)
              /\ Len(Body(k)) <= 1 => ActionOf(k).next_state = 0
              /\ Len(Body(k)) >= 2 =>
                    AddressIs(Address(k), ActionOf(k).next_state)

-----------------------------------------------------------------------------
(* Properties of the output of the traced run. *)

\* The action of the last step the first execution has executed.
LastAction1 ==
    ActionFor(states, trace1[Len(trace1)].state, trace1[Len(trace1)].read)

C11_Step ==
    /\ pc' \in {"main", "parsed", "pass1", "exit"} => stdout' = << >>
    /\ stdout' # << >> =>
          /\ halt1' # NotHalted
          /\ Len(trace1') > 0
          /\ LastAction1'.direction_to_move = 0
          /\ UNCHANGED <<min_rel_tape_ix, max_rel_tape_ix, trace1>>

\* C11: nothing is written to standard output before the first execution has
\* completed by a Stop: a run that ends with the invalid-tape-character, the
\* step-limit or the tape-limit error has printed no tape line and no frame,
\* and from the transition that emits the first frame on, the least and the
\* greatest offset of the head no longer change.
C11_NoOutputBeforeHalt == [][C11_Step]_vars

\* A run with verbosity 2 died of the tape limit after executing steps, and
\* printed nothing.
C11_Witness ==
    /\ pc = "exit"
    /\ verbosity = 2
    /\ error.kind = "TapeLimitExceeded"
    /\ Executed > 0
    /\ stdout = << >>

\* The numbers of the steps of the frames printed so far.
FrameSteps == {stdout[k].step : k \in 1..Len(stdout)}

\* The frames are printed in the order of their steps.
FramesInOrder == \A k \in 2..Len(stdout) : stdout[k - 1].step < stdout[k].step

\* The symbol a cell holds that reads as c: a cell outside the initial tape
\* that was never written is a Blank.
SymbolOf(c) == IF c = NUL THEN " " ELSE c

\* The step n of the second execution wrote a symbol other than the one the
\* head cell held.
Changed(n) == trace2[n].written # SymbolOf(trace2[n].read)

\* C12: with verbosity 1 the second execution prints the frame of step 0
\* whatever the tape, and the frame of a later step n iff the symbol written
\* at step n differs from the symbol the head cell held just before, Blank,
\* '0' and '1' being three symbols.
C12_FramesOnChange ==
    (verbosity = 1 /\ (InPass2 \/ Traced)) =>
        /\ FramesInOrder
        /\ FrameSteps = {0} \cup {n \in 1..Len(trace2) : Changed(n)}

\* A run with verbosity 1 has written 0 onto a cell that held '0' and 0 onto
\* a Blank cell.
C12_Witness ==
    /\ verbosity = 1
    /\ Traced
    /\ \E n \in 1..Len(trace2) :
          trace2[n].read = "0" /\ trace2[n].written = "0"
    /\ \E n \in 1..Len(trace2) :
          trace2[n].read = " " /\ trace2[n].written = "0"

\* The frame of step n of a run with verbosity 2, which prints a frame at
\* every step.
FrameOf(n) == stdout[n + 1]

\* The index of the cell a frame marks as the head cell, and the cell of
\* index j in a frame: a frame prints two characters for a cell before the
\* head, three for the head cell, two for a cell after it.
FrameHead(f) ==
    LET marks == {i \in 1..Len(f.text) : f.text[i] = "|"}
    IN  ((CHOOSE i \in marks : \A k \in marks : i <= k) - 1) \div 2

FrameCell(f, j) == f.text[2 * j + 2]

FrameCells(f) == 0..(((Len(f.text) - 1) \div 2) - 1)

\* The head index, the state and the tape of the second execution at the
\* write of step n, and after step n is complete.
HeadAt(n) == trace2[n].rel - min_rel_tape_ix
StateAt(n) == trace2[n].state

HeadAfter(n) ==
    IF n < Len(trace2) THEN trace2[n + 1].rel - min_rel_tape_ix ELSE tape_ix

StateAfter(n) == IF n < Len(trace2) THEN trace2[n + 1].state ELSE curr_state

TapeAfterWrite(n, j) ==
    LET writes == {k \in 1..n : HeadAt(k) = j}
    IN  IF writes = {}
        THEN TapeAt(SecondBuffer(initial_tape, final_tape_len, -min_rel_tape_ix), j)
        ELSE trace2[CHOOSE k \in writes : \A m \in writes : m <= k].written

\* The frames so far are those of the steps 0, 1, ..., step in this order,
\* each with the tape as it is after the write of its step.
FramesOfAllSteps ==
    /\ Len(stdout) = step + 1
    /\ Len(trace2) = step
    /\ \A n \in 0..step :
          /\ FrameOf(n).step = n
          /\ \A j \in FrameCells(FrameOf(n)) :
                FrameCell(FrameOf(n), j) = TapeAfterWrite(n, j)

\* C13, as stated: with verbosity 2 a run that halts after N steps has
\* printed N + 1 frames, of the steps 0, 1, ..., N in this order, and the
\* frame of step n >= 1 shows the tape after the write of step n, the head
\* on the cell it occupies after the move of step n and the state the
\* machine is in after the transition of step n.
C13_FramesAfterStep ==
    (verbosity = 2 /\ Traced) =>
        /\ FramesOfAllSteps
        /\ \A n \in 1..step :
              /\ FrameHead(FrameOf(n)) = HeadAfter(n)
              /\ FrameOf(n).state = StateAfter(n)

\* C13, amended: with verbosity 2 a run that halts after N steps has printed
\* N + 1 frames, of the steps 0, 1, ..., N in this order, and the frame of
\* step n >= 1 shows the tape after the write of step n, the head on the
\* cell that step n wrote (where it was before the move of step n) and the
\* state in which step n was executed (before its transition).
C13_FramesAtWrite ==
    (verbosity = 2 /\ (InPass2 \/ Traced)) =>
        /\ FramesOfAllSteps
        /\ \A n \in 1..step :
              /\ FrameHead(FrameOf(n)) = HeadAt(n)
              /\ FrameOf(n).state = StateAt(n)

\* A run with verbosity 2 has halted after a step that was not the last and
\* changed the state and moved the head.
C13_Witness ==
    /\ verbosity = 2
    /\ Traced
    /\ initial_tape # << >>
    /\ \E n \in 1..(step - 1) :
          StateAfter(n) # StateAt(n) /\ HeadAfter(n) # HeadAt(n)

-----------------------------------------------------------------------------
(* Properties of the steps of the two executions. *)

\* The symbol the cell at offset r from the starting cell holds before step
\* n of an execution with the steps tr: what the last step there wrote, or
\* the character of the initial tape, or Blank outside the initial tape.
Held(tr, n, r) ==
    LET writes == {k \in 1..(n - 1) : tr[k].rel = r}
    IN  IF writes # {}
        THEN tr[CHOOSE k \in writes : \A m \in writes : m <= k].written
        ELSE IF r \in 0..(Len(initial_tape) - 1) THEN initial_tape[r + 1]
        ELSE " "

\* The action of a machine on the symbol its head cell holds at step n:
\* action1 on '1', action0 on '0' and on Blank.
ActionOn(tr, n) ==
    IF Held(tr, n, tr[n].rel) = "1" THEN states[tr[n].state + 1].action1
    ELSE states[tr[n].state + 1].action0

\* The steps tr of an execution, which has halted or not, are those of a
\* machine that starts in state 0 on the first cell of the initial tape and
\* takes at every step the action on the symbol of the head cell.
TakesActionOn(tr, halted) ==
    /\ Len(tr) >= 1 => (tr[1].state = 0 /\ tr[1].rel = 0)
    /\ \A n \in 1..Len(tr) :
          /\ tr[n].written = (IF ActionOn(tr, n).value_to_write = 0
                              THEN "0" ELSE "1")
          /\ n < Len(tr) =>
                /\ ActionOn(tr, n).direction_to_move # 0
                /\ tr[n + 1].rel = tr[n].rel + ActionOn(tr, n).direction_to_move
                /\ tr[n + 1].state = ActionOn(tr, n).next_state
          /\ (n = Len(tr) /\ halted) => ActionOn(tr, n).direction_to_move = 0

\* C14: at every step of the first and of the second execution, for every
\* initial tape, the empty one included, the action taken is action0 of the
\* current state when the head cell is Blank or holds '0', and action1 only
\* when it holds '1'; the execution starts in state 0 on the first cell of
\* the initial tape.
C14_ActionBySymbol ==
    /\ TakesActionOn(trace1, halt1 # NotHalted)
    /\ TakesActionOn(trace2, Traced)


\* The step of the first or of the second execution that this transition
\* makes, if it makes one.
Steps1 == Len(trace1') = Len(trace1) + 1
Steps2 == Len(trace2') = Len(trace2) + 1

\* The action a step takes: the one of its state for the byte it read.
TakenBy(e) ==
    IF e.read \in {"0", " "} THEN states[e.state + 1].action0
    ELSE states[e.state + 1].action1

BitOf(c) == IF c = "0" THEN 0 ELSE 1

\* A Stop step: it writes the bit of the action at the head, and neither
\* the head nor the state changes.
StopStep(a, ix, ix_after, t_after) ==
    /\ TapeAt(t_after, ix) \in {"0", "1"}
    /\ BitOf(TapeAt(t_after, ix)) = a.value_to_write
    /\ ix_after = ix
    /\ curr_state' = curr_state

\* A step that is not a Stop: the head moves one cell in the direction of
\* the action and the state becomes the action's next state.
MoveStep(a, at, at_after) ==
    /\ a.direction_to_move \in {-1, 1}
    /\ at_after = at + a.direction_to_move
    /\ curr_state' = a.next_state

C15_Step ==
    /\ Steps1 =>
          LET a == TakenBy(trace1'[Len(trace1')])
          IN  /\ BitOf(trace1'[Len(trace1')].written) = a.value_to_write
              /\ IF pc' = "halted1"
                 THEN /\ a.direction_to_move = 0
                      /\ StopStep(a, tape_ix, tape_ix', tape')
                      /\ rel_tape_ix' = rel_tape_ix
                 ELSE /\ pc' = "pass1"
                      /\ MoveStep(a, rel_tape_ix, rel_tape_ix')
    /\ Steps2 =>
          LET a == TakenBy(trace2'[Len(trace2')])
          IN  /\ BitOf(trace2'[Len(trace2')].written) = a.value_to_write
              /\ IF pc' = "done"
                 THEN /\ a.direction_to_move = 0
                      /\ StopStep(a, tape_ix, tape_ix', tape')
                 ELSE /\ pc' = "pass2"
                      /\ MoveStep(a, tape_ix, tape_ix')
    /\ (pc # "halted1" /\ pc' = "halted1") => (pc = "pass1" /\ Steps1)
    /\ (pc = "pass2" /\ pc' = "done") => Steps2
    /\ (pc # "done" /\ pc' = "done") => pc \in {"halted1", "pass2"}

\* C15: an execution ends without an error only right after a Stop step;
\* that step writes the bit of its action, and the head and the state stay
\* as they are; every other step moves the head one cell in the direction
\* of its action and takes the action's next state.
C15_StopEndsPass == [][C15_Step]_vars

\* Both executions have ended by a Stop after steps that moved.
C15_Witness ==
    /\ Traced
    /\ Len(trace1) >= 3
    /\ Len(trace2) = Len(trace1)
    /\ trace2 = trace1
    /\ \E n \in 1..Len(trace2) : trace2[n].rel > 0
    /\ trace2[Len(trace2)].state # 0


\* C16: in the first execution, for every initial tape, the empty one
\* included, the head index is at least 0 and less than the length of the
\* materialized tape whenever a cell is read or written.
C16_HeadInTape1 ==
    (/\ pc = "pass1"
     /\ ~StepLimitReached(step, max_steps)
     /\ ~TapeLimitExceeded(tape_len, max_tape_len))
        => (0 <= tape_ix /\ tape_ix < tape_len)


\* C17: the tape of the second execution has exactly
\* max_rel_tape_ix - min_rel_tape_ix + 1 cells from its allocation on and
\* never grows; it starts as blanks with the initial tape copied so that its
\* first cell is at index -min_rel_tape_ix; and for every run that halts,
\* the empty initial tape included, the head index stays within
\* 0 .. length - 1 at every read, write and frame.
C17_HeadInTape2 ==
    (InPass2 \/ Traced) =>
        /\ final_tape_len = max_rel_tape_ix - min_rel_tape_ix + 1
        /\ tape_alloc = final_tape_len + 1
        /\ 0 <= tape_ix /\ tape_ix < final_tape_len
        /\ (InPass2 /\ step = 0) =>
              \A i \in 0..(final_tape_len - 1) :
                  TapeAt(tape, i) =
                      IF i + min_rel_tape_ix \in 0..(Len(initial_tape) - 1)
                      THEN initial_tape[i + min_rel_tape_ix + 1] ELSE " "


\* The offsets of the cells the head was on during the first execution, and
\* those of them it came to by a move.
Visited == {trace1[n].rel : n \in 1..Len(trace1)}
MovedTo == {trace1[n].rel : n \in 2..Len(trace1)}

Least(S) == CHOOSE x \in S : \A y \in S : x <= y
Greatest(S) == CHOOSE x \in S : \A y \in S : y <= x

\* When the first execution has halted, both bounds are those of the cells
\* the head was on, and reflect no cell it never visited.
C18_VisitedExtent ==
    halt1 # NotHalted =>
        /\ min_rel_tape_ix = Least(Visited)
        /\ max_rel_tape_ix = Greatest(Visited)

\* C18: when the first execution has halted, min_rel_tape_ix is the least
\* offset of a cell the head was on, offset 0 included, and max_rel_tape_ix
\* is the greater of the offset of the last cell of the initial tape, which
\* is -1 for the empty tape, and the greatest offset the head moved to.
C18_ExtentWithInitialTape ==
    halt1 # NotHalted =>
        /\ min_rel_tape_ix = Least(Visited)
        /\ max_rel_tape_ix = Greatest(MovedTo \cup {Len(initial_tape) - 1})

\* A halted first execution whose head moved, but not up to the last cell
\* of the initial tape.
C18_Witness ==
    /\ pc = "halted1"
    /\ Len(trace1) >= 2
    /\ Greatest(Visited) < Len(initial_tape) - 1
    /\ max_rel_tape_ix = Len(initial_tape) - 1


\* A step of the first execution that goes on, the direction of its move,
\* and whether the tape grows in it.
MovesOn1 == Steps1 /\ pc' = "pass1"
Moved == TakenBy(trace1'[Len(trace1')]).direction_to_move
Grows == pc = "pass1" /\ tape_len' # tape_len

\* How many growths a tape of length len has had, if it is a length that
\* growths lead to; there are no more growths than steps.
GrowthsOf(len) ==
    {k \in 0..MaxSteps :
        len = Len(initial_tape) + TAPE_EXPANSION_AMT * (2^k - 1)}

\* The k-th growth of a step: amt cells are added, all Blank, at the end
\* of the tape that the head is beyond after its move; the cells there
\* were keep their symbols; and the offset of
\* the head, the state and the number of steps are those of the step.
GrowthOf(k, amt) ==
    LET left == tape_ix + Moved = -1
        shift == IF left THEN amt ELSE 0
        added == IF left THEN 0..(amt - 1)
                 ELSE tape_len..(tape_len + amt - 1)
        a == TakenBy(trace1'[Len(trace1')])
    IN  /\ amt = TAPE_EXPANSION_AMT * 2^(k - 1)
        /\ tape_len' = tape_len + amt
        /\ GrowthsOf(tape_len') = {k}
        /\ \A i \in added : TapeAt(tape', i) = " "
        /\ \A i \in 0..(tape_len - 1) :
              TapeAt(tape', i + shift) =
                  IF i = tape_ix THEN trace1'[Len(trace1')].written
                  ELSE TapeAt(tape, i)
        /\ tape_ix' = tape_ix + Moved + shift
        /\ rel_tape_ix' = rel_tape_ix + Moved
        /\ curr_state' = a.next_state
        /\ step' = step + 1

C19_Step ==
    /\ MovesOn1 =>
          /\ Grows <=> (tape_ix + Moved = -1 \/ tape_ix + Moved = tape_len)
          /\ Grows => \E k \in 1..MaxSteps :
                          /\ GrowthsOf(tape_len) = {k - 1}
                          /\ GrowthOf(k, tape_len' - tape_len)
    /\ ~MovesOn1 => ~Grows

\* C19: the tape of the first execution grows exactly when a move takes the
\* head one cell beyond its left or its right end; the k-th growth adds
\* 1024 * 2^(k-1) Blank cells on the side of the move, whichever the sides
\* of the growths before, so that after k growths the length is the initial
\* one plus 1024 * (2^k - 1); a growth leaves the symbols of the cells there
\* were, the offset of the head from its starting cell, the state and the
\* number of steps as the step without it leaves them.
C19_Growth == [][C19_Step]_vars

\* After a growth to the left and a growth to the right of a non-empty tape
\* that holds a symbol.
C19_Witness ==
    /\ \E i \in 0..(tape_len - 1) : TapeAt(tape, i) \in {"0", "1"}
    /\ pc = "pass1"
    /\ initial_tape # << >>
    /\ GrowthsOf(tape_len) = {2}
    /\ min_rel_tape_ix = -1
    /\ max_rel_tape_ix = Len(initial_tape)


\* The cells of the materialized tape that hold a symbol.
NonBlank == {i \in 0..(tape_len - 1) : TapeAt(tape, i) # " "}

\* The index of the cell at offset r from the starting cell; the starting
\* cell is the one at offset rel_tape_ix from the head.
IndexOf(r) == tape_ix - rel_tape_ix + r

\* C20: for every non-empty initial tape, at the start of every step of the
\* first execution the cells of the materialized tape that are not Blank
\* form one interval, which holds every cell of the initial tape and every
\* cell the head has left; the head cell is in the interval or is the Blank
\* cell next to one of its ends; and no Blank cell lies between two cells
\* that are not Blank.
C20_ContiguousSymbols ==
    (pc = "pass1" /\ initial_tape # << >>) =>
        /\ NonBlank # {}
        /\ NonBlank = Least(NonBlank)..Greatest(NonBlank)
        /\ \A i \in NonBlank : TapeAt(tape, i) \in {"0", "1"}
        /\ \A r \in 0..(Len(initial_tape) - 1) : IndexOf(r) \in NonBlank
        /\ \A r \in Visited : IndexOf(r) \in NonBlank
        /\ 0 <= tape_ix /\ tape_ix < tape_len
        /\ tape_ix \in (Least(NonBlank) - 1)..(Greatest(NonBlank) + 1)

\* The head is on the Blank cell next to the symbols after it has left cells
\* on both sides of the cell it started on.
C20_Witness ==
    /\ pc = "pass1"
    /\ initial_tape # << >>
    /\ Len(trace1) >= 3
    /\ tape_ix \notin NonBlank
    /\ GrowthsOf(tape_len) = {2}

=============================================================================
